---- MODULE Spec2Model ----
(***************************************************************************)
(* A model of the PO/MO translation catalog codec (src/mo_convert.py) and  *)
(* of the missing-translation report (src/missing_translations.py).        *)
(*                                                                         *)
(* Strings are sequences of Unicode code points, byte strings sequences of *)
(* numbers in 0..255.  Optional values are sequences of length 0 (None) or *)
(* 1 (the value).  The model's alphabet holds no code point above U+07FF   *)
(* other than U+FFFD, which only decoding produces.                        *)
(***************************************************************************)
EXTENDS Integers, Sequences, FiniteSets, TLC

VARIABLES
    pc,               \* position of the scenario that is running
    s, escaped, parsed,                       \* _po_escape / _parse_po_string_literal
    header_msgstr, detected,                  \* _detect_charset_from_header
    lines, pos, cur, active_key, entries, nonlocal_header,   \* read_po
    written, po_text,                         \* write_po: its argument and the file it writes
    catalog, charset, keys, values, offsets_o, offsets_t, mo_file,  \* write_mo
    mo_result,                                \* read_mo
    en_entries, pt_entries, idx, missing_count, missing_blocks,     \* missing_translations.main
    out_text, printed                         \* the report file and the count it prints

escVars  == <<s, escaped, parsed>>
csVars   == <<header_msgstr, detected>>
poVars   == <<lines, pos, cur, active_key, entries, nonlocal_header, written, po_text>>
moVars   == <<catalog, charset, keys, values, offsets_o, offsets_t, mo_file, mo_result>>
diffVars == <<en_entries, pt_entries, idx, missing_count, missing_blocks, out_text, printed>>
vars     == <<pc, escVars, csVars, poVars, moVars, diffVars>>

(***************************************************************************)
(* Idle values of the variables a scenario does not use.                   *)
(***************************************************************************)
EscIdle  == s = << >> /\ escaped = << >> /\ parsed = << >>
CsIdle   == header_msgstr = << >> /\ detected = << >>
PoIdle   == /\ lines = << >> /\ pos = 0 /\ cur = << >> /\ active_key = << >>
            /\ entries = << >> /\ nonlocal_header = << >>
            /\ written = << >> /\ po_text = << >>
MoIdle   == /\ catalog = << >> /\ charset = << >> /\ keys = << >> /\ values = << >>
            /\ offsets_o = << >> /\ offsets_t = << >> /\ mo_file = << >>
            /\ mo_result = [kind |-> "none", charset |-> << >>, entries |-> << >>]
DiffIdle == /\ en_entries = << >> /\ pt_entries = << >> /\ idx = 0
            /\ missing_count = 0 /\ missing_blocks = << >>
            /\ out_text = << >> /\ printed = << >>

(***************************************************************************)
(* Bounds of the model.                                                    *)
(***************************************************************************)
MaxLen == 3          \* length of the strings given to _po_escape
MaxLines == 4        \* lines of the PO file that is read first
MaxEntries == 2      \* entries of the catalog given to write_mo
MaxCount == 2        \* entry count in the header of a hand-made MO buffer
MaxRef == 2          \* entries of the reference catalog of the report
MaxTgt == 2          \* entries of the target catalog of the report

(***************************************************************************)
(* Characters the code names.                                              *)
(***************************************************************************)
BACKSLASH == 92
DQUOTE    == 34
TAB       == 9
CR        == 13
LF        == 10
NUL       == 0
CTX_SEP   == 4
REPLACEMENT == 65533

None    == << >>
Some(x) == << x >>

(***************************************************************************)
(* Python string primitives.                                               *)
(***************************************************************************)
StartsWith(str, prefix) ==
    /\ Len(str) >= Len(prefix)
    /\ SubSeq(str, 1, Len(prefix)) = prefix

Drop(str, n) == SubSeq(str, n + 1, Len(str))

\* The characters str.isspace() accepts, hence those str.strip() removes.
IsSpace(c) == c \in {9, 10, 11, 12, 13, 28, 29, 30, 31, 32, 133, 160}

\* The balanced concatenation of F(lo), ..., F(hi).
RECURSIVE FlatMap(_, _, _)
FlatMap(F(_), lo, hi) ==
    IF lo > hi THEN << >>
    ELSE IF lo = hi THEN F(lo)
    ELSE LET mid == (lo + hi) \div 2
         IN  FlatMap(F, lo, mid) \o FlatMap(F, mid + 1, hi)

\* The least element of a non-empty set of numbers.
Min(S) == CHOOSE x \in S : \A y \in S : x <= y

\* The end (exclusive) of the run of characters satisfying P that starts at i.
RunEnd(str, i, P(_)) == Min({j \in i..(Len(str) + 1) : j > Len(str) \/ ~P(str[j])})

LStrip(str) == Drop(str, RunEnd(str, 1, IsSpace) - 1)

RStrip(str) ==
    SubSeq(str, 1, Len(str) - Cardinality({k \in 1..Len(str) :
                                  \A j \in (Len(str) - k + 1)..Len(str) : IsSpace(str[j])}))

Strip(str) == RStrip(LStrip(str))

\* str.replace(c, rep) for a one-character c.
Replace(str, c, rep) ==
    LET F(i) == IF str[i] = c THEN rep ELSE <<str[i]>>
    IN  FlatMap(F, 1, Len(str))

\* str.split(sep) for a one-character sep: one part more than there are separators.
Split(str, sep) ==
    LET starts == {1} \cup {i + 1 : i \in {j \in 1..Len(str) : str[j] = sep}}
        NotSep(c) == c # sep
        Nth(k) == CHOOSE x \in starts : Cardinality({y \in starts : y < x}) = k - 1
    IN  [k \in 1..Cardinality(starts) |->
            SubSeq(str, Nth(k), RunEnd(str, Nth(k), NotSep) - 1)]

\* sep.join(parts) for a one-character sep.
Join(parts, sep) ==
    LET F(i) == IF i < Len(parts) THEN Append(parts[i], sep) ELSE parts[i]
    IN  FlatMap(F, 1, Len(parts))

Contains(str, c) == \E i \in 1..Len(str) : str[i] = c

(***************************************************************************)
(* _po_escape, _po_quote.                                                  *)
(***************************************************************************)
PoEscapeNoBackslash(str) ==
    LET s2 == Replace(str, DQUOTE, <<BACKSLASH, DQUOTE>>)
        s3 == Replace(s2, TAB, <<BACKSLASH, 116>>)
        s4 == Replace(s3, CR, <<BACKSLASH, 114>>)
    IN  Replace(s4, LF, <<BACKSLASH, 110>>)

PoEscape(str) ==
    LET s1 == Replace(str, BACKSLASH, <<BACKSLASH, BACKSLASH>>)
        s2 == Replace(s1, DQUOTE, <<BACKSLASH, DQUOTE>>)
        s3 == Replace(s2, TAB, <<BACKSLASH, 116>>)
        s4 == Replace(s3, CR, <<BACKSLASH, 114>>)
    IN  Replace(s4, LF, <<BACKSLASH, 110>>)

Quoted(str) == <<DQUOTE>> \o str \o <<DQUOTE>>

PoQuote(str) ==
    IF str = << >> THEN << <<DQUOTE, DQUOTE>> >>
    ELSE LET parts == Split(str, LF)
         IN  [i \in 1..Len(parts) |->
                 IF i < Len(parts)
                 THEN Quoted(PoEscape(Append(parts[i], LF)))
                 ELSE Quoted(PoEscape(parts[i]))]

(***************************************************************************)
(* _parse_po_string_literal: ast.literal_eval of a double-quoted Python    *)
(* string literal.  A result is [ok, val]; the caller turns a failure into *)
(* the empty string.  Escapes \x, \u, \U, \N, octal escapes and a comma    *)
(* after the closing quote are outside the model's inputs.                 *)
(***************************************************************************)
EscapeValue(c) ==
    CASE c = BACKSLASH -> <<BACKSLASH>>
      [] c = DQUOTE    -> <<DQUOTE>>
      [] c = 39        -> <<39>>          \* \'
      [] c = 110       -> <<LF>>          \* \n
      [] c = 116       -> <<TAB>>         \* \t
      [] c = 114       -> <<CR>>          \* \r
      [] c = 97        -> <<7>>           \* \a
      [] c = 98        -> <<8>>           \* \b
      [] c = 102       -> <<12>>          \* \f
      [] c = 118       -> <<11>>          \* \v
      [] OTHER         -> <<BACKSLASH, c>>   \* an unknown escape is kept as written

Failed == [ok |-> FALSE, val |-> << >>]

\* The number of backslashes that end right before position i.
BackslashesBefore(str, i) ==
    Cardinality({k \in 1..(i - 1) : \A j \in (i - k)..(i - 1) : str[j] = BACKSLASH})

\* Position i holds the character of an escape sequence (an odd number of
\* backslashes precedes it).
IsEscaped(str, i) == BackslashesBefore(str, i) % 2 = 1

\* The body of a literal after its opening quote: the value up to the closing
\* quote, and what follows it.  A raw line end before the closing quote, or no
\* closing quote, is an error.
LiteralBody(str) ==
    LET closes == {i \in 1..Len(str) : str[i] = DQUOTE /\ ~IsEscaped(str, i)}
        close  == Min(closes)
        F(i)   == IF IsEscaped(str, i) THEN EscapeValue(str[i])
                  ELSE IF str[i] = BACKSLASH THEN << >>
                  ELSE <<str[i]>>
    IN  IF closes = {} \/ \E i \in 1..(close - 1) : str[i] \in {LF, CR}
        THEN [ok |-> FALSE, val |-> << >>, rest |-> << >>]
        ELSE [ok |-> TRUE, val |-> FlatMap(F, 1, close - 1), rest |-> Drop(str, close)]

SkipBlank(str) ==
    LET Blank(c) == c \in {32, TAB, 12}
    IN  Drop(str, RunEnd(str, 1, Blank) - 1)

\* One or more adjacent literals, optionally followed by a # comment.
RECURSIVE LiteralEval(_)
LiteralEval(str) ==
    IF str = << >> \/ Head(str) # DQUOTE THEN Failed
    ELSE LET b    == LiteralBody(Tail(str))
             rest == SkipBlank(b.rest)
         IN  IF ~b.ok THEN Failed
             ELSE IF rest = << >> \/ Head(rest) = 35 THEN [ok |-> TRUE, val |-> b.val]
             ELSE LET more == LiteralEval(rest)
                  IN  IF more.ok THEN [ok |-> TRUE, val |-> b.val \o more.val]
                      ELSE Failed

ParsePoStringLiteral(str) ==
    LET t == Strip(str)
    IN  IF ~StartsWith(t, <<DQUOTE>>) THEN << >>
        ELSE IF Contains(t, NUL) THEN << >>
        ELSE LET r == LiteralEval(t)
             IN  IF r.ok THEN r.val ELSE << >>

(***************************************************************************)
(* _detect_charset_from_header: re.search(r"charset=([^\\s;]+)", h, re.I). *)
(* In the raw pattern the class [^\\s;] excludes the backslash, the letter *)
(* s (and S, under IGNORECASE) and the semicolon.                          *)
(***************************************************************************)
Lower(c) == IF c >= 65 /\ c <= 90 THEN c + 32 ELSE c

LowerStr(str) == [i \in 1..Len(str) |-> Lower(str[i])]

CHARSET_EQ == <<99, 104, 97, 114, 115, 101, 116, 61>>      \* "charset="
UTF8_LOWER == <<117, 116, 102, 45, 56>>                    \* "utf-8"

InValueClass(c) == c # BACKSLASH /\ Lower(c) # 115 /\ c # 59

\* The pattern matches at i: "charset=" in any case, then one class character.
MatchesAt(str, i) ==
    /\ i + Len(CHARSET_EQ) <= Len(str)
    /\ LowerStr(SubSeq(str, i, i + Len(CHARSET_EQ) - 1)) = CHARSET_EQ
    /\ InValueClass(str[i + Len(CHARSET_EQ)])

\* The greedy run of class characters from position i.
ClassRun(str, i) == SubSeq(str, i, RunEnd(str, i, InValueClass) - 1)

\* str.strip(c) for a one-character c.
StripChar(str, c) ==
    LET Is(x) == x = c
        lead  == RunEnd(str, 1, Is) - 1
        trail == Cardinality({k \in 1..Len(str) :
                                 \A j \in (Len(str) - k + 1)..Len(str) : str[j] = c})
    IN  IF lead = Len(str) THEN << >> ELSE SubSeq(str, lead + 1, Len(str) - trail)

DetectCharsetFromHeader(str) ==
    LET hits == {i \in 1..Len(str) : MatchesAt(str, i)}
    IN  IF hits = {} THEN UTF8_LOWER
        ELSE LET first == CHOOSE i \in hits : \A j \in hits : i <= j
             IN  StripChar(Strip(ClassRun(str, first + Len(CHARSET_EQ))), DQUOTE)

(***************************************************************************)
(* Charset resolver scenario: a header block is built from a prefix, the   *)
(* parameter name, a value and what follows it, then resolved.             *)
(***************************************************************************)
HeaderPrefixes ==
    { << >>,
      \* "Content-Type: text/plain; "
      <<67, 111, 110, 116, 101, 110, 116, 45, 84, 121, 112, 101, 58, 32, 116, 101,
        120, 116, 47, 112, 108, 97, 105, 110, 59, 32>> }

HeaderNames ==
    { << >>,                                           \* no parameter
      <<99, 104, 97, 114, 115, 101, 116, 61>>,         \* "charset="
      <<67, 72, 65, 82, 83, 69, 84, 61>>,              \* "CHARSET="
      <<67, 104, 97, 114, 115, 101, 116, 61>> }        \* "Charset="

HeaderValues ==
    { <<85, 84, 70, 45, 56>>,                          \* UTF-8
      <<117, 116, 102, 45, 56>>,                       \* utf-8
      <<73, 83, 79, 45, 56, 56, 53, 57, 45, 49>>,      \* ISO-8859-1
      <<34, 85, 84, 70, 45, 56, 34>>,                  \* "UTF-8" (quoted)
      <<108, 97, 116, 105, 110, 45, 49>>,              \* latin-1
      <<99, 112, 49, 50, 53, 50>> }                    \* cp1252

HeaderSuffixes ==
    { << >>,
      <<10>>,                                          \* end of line
      <<59, 32, 120, 61, 49>>,                         \* "; x=1"
      <<32, 120>>,                                     \* " x"
      \* "\nContent-Transfer-Encoding: 8bit\n"
      <<10, 67, 111, 110, 116, 101, 110, 116, 45, 84, 114, 97, 110, 115, 102, 101,
        114, 45, 69, 110, 99, 111, 100, 105, 110, 103, 58, 32, 56, 98, 105, 116, 10>> }

InitCharset ==
    /\ pc = "detect"
    /\ \E p \in HeaderPrefixes, n \in HeaderNames, v \in HeaderValues, x \in HeaderSuffixes :
           header_msgstr = p \o n \o v \o x
    /\ detected = << >>
    /\ EscIdle /\ PoIdle /\ MoIdle /\ DiffIdle

DoDetect ==
    /\ pc = "detect"
    /\ detected' = DetectCharsetFromHeader(header_msgstr)
    /\ pc' = "detected"
    /\ UNCHANGED <<header_msgstr, escVars, poVars, moVars, diffVars>>

NextCharset == DoDetect

SpecCharset == InitCharset /\ [][NextCharset]_vars

ValueRun(str, i) ==
    LET InValue(c) == ~IsSpace(c) /\ c # 59
    IN  SubSeq(str, i, RunEnd(str, i, InValue) - 1)

ClaimedCharset(str) ==
    LET hits == {i \in 1..Len(str) :
                    /\ i + Len(CHARSET_EQ) - 1 <= Len(str)
                    /\ LowerStr(SubSeq(str, i, i + Len(CHARSET_EQ) - 1)) = CHARSET_EQ}
    IN  IF hits = {} THEN UTF8_LOWER
        ELSE LET first == CHOOSE i \in hits : \A j \in hits : i <= j
             IN  StripChar(Strip(ValueRun(str, first + Len(CHARSET_EQ))), DQUOTE)

\* C3: the resolver returns the value of the charset= parameter, ending at the
\* first whitespace or ';', and "utf-8" when there is no such parameter.
CharsetResolved == pc = "detected" => detected = ClaimedCharset(header_msgstr)


(***************************************************************************)
(* read_po: the line loop.  A reader state is [cur, active_key, entries,   *)
(* header]; StepLine is one iteration of the loop over lines + [""].       *)
(***************************************************************************)
KW_MSGCTXT      == <<109, 115, 103, 99, 116, 120, 116>>                         \* msgctxt
KW_MSGID        == <<109, 115, 103, 105, 100>>                                  \* msgid
KW_MSGID_PLURAL == <<109, 115, 103, 105, 100, 95, 112, 108, 117, 114, 97, 108>> \* msgid_plural
KW_MSGSTR       == <<109, 115, 103, 115, 116, 114>>                             \* msgstr

PoEntry(ctxt, id, plural, strs) ==
    [msgctxt |-> ctxt, msgid |-> id, msgid_plural |-> plural, msgstr |-> strs]

EmptyEntry == PoEntry(None, << >>, None, << >>)

CurOrNew(c) == IF c = None THEN EmptyEntry ELSE c[1]

ReaderStart ==
    [cur |-> None, active_key |-> None, entries |-> << >>, header |-> UTF8_LOWER]

\* The mutant: the entry is appended but stays under construction.
FlushKeepsCur(st) ==
    IF st.cur = None THEN st
    ELSE [st EXCEPT !.entries = Append(@, st.cur[1])]

Flush(st) ==
    IF st.cur = None THEN st
    ELSE LET e == st.cur[1]
         IN  [st EXCEPT
                 !.header  = IF e.msgid = << >> /\ e.msgstr # << >>
                             THEN DetectCharsetFromHeader(e.msgstr[1])
                             ELSE @,
                 !.entries = Append(@, e),
                 !.cur     = None]

IsDigit(c) == c >= 48 /\ c <= 57

DigitRun(str, i) == SubSeq(str, i, RunEnd(str, i, IsDigit) - 1)

RECURSIVE IntOf(_, _)
IntOf(digits, acc) ==
    IF digits = << >> THEN acc ELSE IntOf(Tail(digits), acc * 10 + (Head(digits) - 48))

\* re.match(r"^msgstr\[(\d+)\]", line): the index, and where the match ends.
MatchMsgstrIndex(line) ==
    LET open   == Append(KW_MSGSTR, 91)
        digits == DigitRun(line, Len(open) + 1)
        close  == Len(open) + Len(digits) + 1
    IN  IF StartsWith(line, open) /\ digits # << >>
           /\ close <= Len(line) /\ line[close] = 93
        THEN [matched |-> TRUE, idx |-> IntOf(digits, 0), end |-> close]
        ELSE [matched |-> FALSE, idx |-> 0, end |-> 0]

\* while len(msgstr) <= idx: msgstr.append("")
PadTo(strs, i) ==
    IF Len(strs) > i THEN strs
    ELSE strs \o [k \in 1..(i + 1 - Len(strs)) |-> << >>]

OrEmpty(opt) == IF opt = None THEN << >> ELSE opt[1]

Continue(e, key, frag) ==
    CASE key.k = "msgctxt"      -> [e EXCEPT !.msgctxt = Some(OrEmpty(@) \o frag)]
      [] key.k = "msgid"        -> [e EXCEPT !.msgid = @ \o frag]
      [] key.k = "msgid_plural" -> [e EXCEPT !.msgid_plural = Some(OrEmpty(@) \o frag)]
      [] key.k = "msgstr" /\ key.idx # None ->
             LET i == key.idx[1]
                 p == PadTo(e.msgstr, i)
             IN  [e EXCEPT !.msgstr = [p EXCEPT ![i + 1] = @ \o frag]]
      [] OTHER -> e

StepLine(st, raw) ==
    LET line == Strip(raw)
        e    == CurOrNew(st.cur)
        m    == MatchMsgstrIndex(line)
    IN  IF line = << >> THEN [Flush(st) EXCEPT !.active_key = None]
        ELSE IF StartsWith(line, <<35>>) THEN st
        ELSE IF StartsWith(line, KW_MSGCTXT) THEN
            [st EXCEPT
                !.cur = Some([e EXCEPT !.msgctxt =
                            Some(ParsePoStringLiteral(Strip(Drop(line, Len(KW_MSGCTXT)))))]),
                !.active_key = Some([k |-> "msgctxt", idx |-> None])]
        ELSE IF StartsWith(line, KW_MSGID_PLURAL) THEN
            [st EXCEPT
                !.cur = Some([e EXCEPT !.msgid_plural =
                            Some(ParsePoStringLiteral(Strip(Drop(line, Len(KW_MSGID_PLURAL)))))]),
                !.active_key = Some([k |-> "msgid_plural", idx |-> None])]
        ELSE IF StartsWith(line, KW_MSGID) THEN
            [st EXCEPT
                !.cur = Some([e EXCEPT !.msgid =
                            ParsePoStringLiteral(Strip(Drop(line, Len(KW_MSGID))))]),
                !.active_key = Some([k |-> "msgid", idx |-> None])]
        ELSE IF m.matched THEN
            LET str == ParsePoStringLiteral(Strip(Drop(line, m.end)))
                p   == PadTo(e.msgstr, m.idx)
            IN  [st EXCEPT
                    !.cur = Some([e EXCEPT !.msgstr = [p EXCEPT ![m.idx + 1] = str]]),
                    !.active_key = Some([k |-> "msgstr", idx |-> Some(m.idx)])]
        ELSE IF StartsWith(line, KW_MSGSTR) THEN
            LET str == ParsePoStringLiteral(Strip(Drop(line, Len(KW_MSGSTR))))
            IN  [st EXCEPT
                    !.cur = Some([e EXCEPT !.msgstr =
                                IF @ # << >> THEN [@ EXCEPT ![1] = str] ELSE <<str>>]),
                    !.active_key = Some([k |-> "msgstr", idx |-> Some(0)])]
        ELSE IF StartsWith(line, <<DQUOTE>>) /\ st.active_key # None /\ st.cur # None THEN
            [st EXCEPT !.cur = Some(Continue(e, st.active_key[1], ParsePoStringLiteral(line)))]
        ELSE st

RECURSIVE ReadLines(_, _)
ReadLines(st, ls) ==
    IF ls = << >> THEN st ELSE ReadLines(StepLine(st, Head(ls)), Tail(ls))

\* read_po of a file with these lines: (header charset, entries).
ReadPo(ls) == ReadLines(ReaderStart, Append(ls, << >>))

(***************************************************************************)
(* str.splitlines of the text read back from a file.                       *)
(***************************************************************************)
IsLineBoundary(c) == c \in {10, 11, 12, 13, 28, 29, 30, 133, 8232, 8233}

\* A line terminator starts at i: a boundary character that is not the LF of a
\* CR LF pair.
TerminatorAt(text, i) ==
    /\ IsLineBoundary(text[i])
    /\ ~(text[i] = LF /\ i > 1 /\ text[i - 1] = CR)

TerminatorLen(text, i) ==
    IF text[i] = CR /\ i < Len(text) /\ text[i + 1] = LF THEN 2 ELSE 1

SplitLines(text) ==
    LET terms  == {i \in 1..Len(text) : TerminatorAt(text, i)}
        starts == {x \in {1} \cup {i + TerminatorLen(text, i) : i \in terms} : x <= Len(text)}
        Nth(k) == CHOOSE x \in starts : Cardinality({y \in starts : y < x}) = k - 1
        End(x) == Min({j \in x..(Len(text) + 1) : j > Len(text) \/ j \in terms})
    IN  [k \in 1..Cardinality(starts) |-> SubSeq(text, Nth(k), End(Nth(k)) - 1)]

(***************************************************************************)
(* write_po.                                                               *)
(***************************************************************************)
RECURSIVE Digits(_)
Digits(n) == IF n < 10 THEN <<48 + n>> ELSE Append(Digits(n \div 10), 48 + (n % 10))

\* A directive line and its continuation lines.
Field(keyword, str) ==
    LET q == PoQuote(str)
    IN  <<keyword \o <<32>> \o q[1]>> \o Tail(q)

RECURSIVE IndexedFields(_, _)
IndexedFields(strs, i) ==
    IF i >= Len(strs) THEN << >>
    ELSE Field(KW_MSGSTR \o <<91>> \o Digits(i) \o <<93>>, strs[i + 1])
             \o IndexedFields(strs, i + 1)

EntryLines(e) ==
    (IF e.msgctxt # None THEN Field(KW_MSGCTXT, e.msgctxt[1]) ELSE << >>)
    \o Field(KW_MSGID, e.msgid)
    \o (IF e.msgid_plural # None
        THEN Field(KW_MSGID_PLURAL, e.msgid_plural[1]) \o IndexedFields(e.msgstr, 0)
        ELSE Field(KW_MSGSTR, IF e.msgstr # << >> THEN e.msgstr[1] ELSE << >>))
    \o << << >> >>

RECURSIVE OutLines(_)
OutLines(es) == IF es = << >> THEN << >> ELSE EntryLines(Head(es)) \o OutLines(Tail(es))

WritePo(es) == Join(OutLines(es), LF)

(***************************************************************************)
(* Codecs: str.encode and bytes.decode for the charsets of the model.  A   *)
(* name Python does not know raises LookupError, which the callers catch.  *)
(* No header of the model declares utf-16, so only encoding is modelled    *)
(* for it.                                                                 *)
(***************************************************************************)
Codec(name) ==
    LET n == LowerStr(name)
    IN  CASE n \in {<<117, 116, 102, 45, 56>>, <<117, 116, 102, 56>>}          -> "utf-8"
          [] n \in {<<108, 97, 116, 105, 110, 45, 49>>,
                    <<105, 115, 111, 45, 56, 56, 53, 57, 45, 49>>}             -> "latin-1"
          [] n = <<97, 115, 99, 105, 105>>                                     -> "ascii"
          [] n = <<117, 116, 102, 45, 49, 54>>                                 -> "utf-16"
          [] OTHER                                                             -> "unknown"

Utf8Encode(str) ==
    LET F(i) == IF str[i] < 128 THEN <<str[i]>>
                ELSE IF str[i] < 2048
                     THEN <<192 + (str[i] \div 64), 128 + (str[i] % 64)>>
                ELSE <<224 + (str[i] \div 4096), 128 + ((str[i] \div 64) % 64),
                       128 + (str[i] % 64)>>
    IN  FlatMap(F, 1, Len(str))

Utf16Encode(str) ==
    LET F(i) == <<str[i] % 256, str[i] \div 256>>
    IN  <<255, 254>> \o FlatMap(F, 1, Len(str))

\* str.encode(charset): ok is FALSE when the codec is unknown or cannot encode.
StrictEncode(str, name) ==
    LET c == Codec(name)
    IN  CASE c = "utf-8"   -> [ok |-> TRUE, val |-> Utf8Encode(str)]
          [] c = "utf-16"  -> [ok |-> TRUE, val |-> Utf16Encode(str)]
          [] c = "latin-1" -> [ok |-> \A i \in 1..Len(str) : str[i] < 256, val |-> str]
          [] c = "ascii"   -> [ok |-> \A i \in 1..Len(str) : str[i] < 128, val |-> str]
          [] OTHER         -> [ok |-> FALSE, val |-> << >>]

IsContinuation(b) == b >= 128 /\ b <= 191
IsLead2(b) == b >= 194 /\ b <= 223

\* A byte that starts or continues no well-formed sequence of one or two bytes.
Utf8Invalid(bytes, i) ==
    /\ bytes[i] >= 128
    /\ ~(IsLead2(bytes[i]) /\ i < Len(bytes) /\ IsContinuation(bytes[i + 1]))
    /\ ~(IsContinuation(bytes[i]) /\ i > 1 /\ IsLead2(bytes[i - 1]))

\* bytes.decode("utf-8", errors="replace").
Utf8DecodeReplace(bytes) ==
    LET F(i) == IF bytes[i] < 128 THEN <<bytes[i]>>
                ELSE IF Utf8Invalid(bytes, i) THEN <<REPLACEMENT>>
                ELSE IF IsLead2(bytes[i])
                     THEN <<(bytes[i] - 192) * 64 + (bytes[i + 1] - 128)>>
                ELSE << >>
    IN  FlatMap(F, 1, Len(bytes))

\* bytes.decode(charset): ok is FALSE when the codec is unknown or cannot decode.
StrictDecode(bytes, name) ==
    LET c == Codec(name)
    IN  CASE c = "utf-8"   -> [ok  |-> \A i \in 1..Len(bytes) : ~Utf8Invalid(bytes, i),
                               val |-> Utf8DecodeReplace(bytes)]
          [] c = "latin-1" -> [ok |-> TRUE, val |-> bytes]
          [] c = "ascii"   -> [ok |-> \A i \in 1..Len(bytes) : bytes[i] < 128, val |-> bytes]
          [] c = "unknown" -> [ok |-> FALSE, val |-> << >>]

(***************************************************************************)
(* write_mo.                                                               *)
(***************************************************************************)
\* "Content-Type: text/plain; charset=UTF-8\n"
SYNTH_HEADER ==
    <<67, 111, 110, 116, 101, 110, 116, 45, 84, 121, 112, 101, 58, 32, 116, 101, 120,
      116, 47, 112, 108, 97, 105, 110, 59, 32, 99, 104, 97, 114, 115, 101, 116, 61,
      85, 84, 70, 45, 56, 10>>

MAGIC_LE == <<222, 18, 4, 149>>       \* struct.pack("<I", 0x950412DE)
MAGIC_BE == <<149, 4, 18, 222>>       \* struct.pack(">I", 0x950412DE)
HEADER_SIZE == 28

\* write_mo.enc
Enc(str, cs) ==
    LET r == StrictEncode(str, cs)
    IN  IF r.ok THEN r.val ELSE Utf8Encode(str)

\* The mutant: a header is never synthesized.
WithHeaderNever(es) == es

WithHeader(es) ==
    IF \E i \in 1..Len(es) : es[i].msgid = << >> THEN es
    ELSE <<PoEntry(None, << >>, None, <<SYNTH_HEADER>>)>> \o es

KeyOf(e) ==
    LET key == IF e.msgctxt # None THEN e.msgctxt[1] \o <<CTX_SEP>> \o e.msgid ELSE e.msgid
    IN  IF e.msgid_plural # None THEN key \o <<NUL>> \o e.msgid_plural[1] ELSE key

ValOf(e) ==
    IF e.msgid_plural # None THEN Join(e.msgstr, NUL)
    ELSE IF e.msgstr # << >> THEN e.msgstr[1] ELSE << >>

\* by_key after the loop: the keys, and for each the value of the last entry
\* that has it.
ByKeyKeys(es, cs) == {Enc(KeyOf(es[i]), cs) : i \in 1..Len(es)}

ByKeyValue(es, cs, k) ==
    LET last == CHOOSE i \in 1..Len(es) :
                    /\ Enc(KeyOf(es[i]), cs) = k
                    /\ \A j \in (i + 1)..Len(es) : Enc(KeyOf(es[j]), cs) # k
    IN  Enc(ValOf(es[last]), cs)

\* The order of bytes objects: the first differing byte decides, a proper
\* prefix comes first.
BytesLess(a, b) ==
    \E i \in 1..Len(b) :
        /\ \A j \in 1..(i - 1) : j <= Len(a) /\ a[j] = b[j]
        /\ i > Len(a) \/ a[i] < b[i]

\* The mutant: the keys in some order that need not be ascending.
Unsorted(S) ==
    LET Nth(k) == CHOOSE x \in S : Cardinality({y \in S : BytesLess(x, y)}) = k - 1
    IN  [k \in 1..Cardinality(S) |-> Nth(k)]

\* sorted(by_key.keys())
Sorted(S) ==
    LET Nth(k) == CHOOSE x \in S : Cardinality({y \in S : BytesLess(y, x)}) = k - 1
    IN  [k \in 1..Cardinality(S) |-> Nth(k)]

\* The mutant: no alignment.
Align4Not(x) == x

Align4(x) == ((x + 3) \div 4) * 4

\* cur_off after the first k strings have been laid out from offset start.
RECURSIVE CurOffAfter(_, _, _)
CurOffAfter(strs, start, k) ==
    IF k = 0 THEN start
    ELSE Align4(CurOffAfter(strs, start, k - 1)) + Len(strs[k]) + 1

\* The (length, offset) pairs of the strings laid out from offset start.
Offsets(strs, start) ==
    [k \in 1..Len(strs) |-> <<Len(strs[k]), Align4(CurOffAfter(strs, start, k - 1))>>]

Zeros(n) == [i \in 1..n |-> 0]

\* The bytes the two loops append to the pool for the strings laid out from
\* offset start: padding up to the aligned offset, the string, a NUL.
PoolBytes(strs, start) ==
    LET F(k) == Zeros(Align4(CurOffAfter(strs, start, k - 1)) - CurOffAfter(strs, start, k - 1))
                    \o strs[k] \o <<NUL>>
    IN  FlatMap(F, 1, Len(strs))

\* struct.pack("<I", x) and struct.pack(">I", x)
PackLE(x) == <<x % 256, (x \div 256) % 256, (x \div 65536) % 256, (x \div 16777216) % 256>>
PackBE(x) == <<(x \div 16777216) % 256, (x \div 65536) % 256, (x \div 256) % 256, x % 256>>

PackTable(offsets) ==
    LET F(k) == PackLE(offsets[k][1]) \o PackLE(offsets[k][2])
    IN  FlatMap(F, 1, Len(offsets))

\* keys and values: the sorted keys of by_key and the value of each.
SortedKeys(es, cs) == Sorted(ByKeyKeys(WithHeader(es), cs))
ValuesOf(es, cs, ks) == [k \in 1..Len(ks) |-> ByKeyValue(WithHeader(es), cs, ks[k])]

\* string_pool_off for n keys: the header, then two tables of n rows of 8 bytes.
StringPoolOff(n) == HEADER_SIZE + n * 8 + n * 8

\* The bytes of the file: the header of seven words, the two tables, the pool.
FileBytes(ks, vs, oo, ot) ==
    MAGIC_LE \o PackLE(0) \o PackLE(Len(ks)) \o PackLE(HEADER_SIZE)
        \o PackLE(HEADER_SIZE + Len(ks) * 8) \o PackLE(0) \o PackLE(0)
        \o PackTable(oo) \o PackTable(ot)
        \o PoolBytes(ks \o vs, StringPoolOff(Len(ks)))

(***************************************************************************)
(* read_mo.  A result is [kind, charset, entries]: kind is "ok", or the    *)
(* exception that ends the call.                                           *)
(***************************************************************************)
\* data[a:b] for 0 <= a <= b
Slice(data, a, b) == SubSeq(data, a + 1, IF b < Len(data) THEN b ELSE Len(data))

\* data[off : off + length], computed without the sum off + length
SliceAt(data, off, length) ==
    IF off >= Len(data) THEN << >>
    ELSE SubSeq(data, off + 1, IF length >= Len(data) - off THEN Len(data) ELSE off + length)

\* struct.unpack(endian + "I", b4)[0]; the fields of the model's files stay below 2^31.
Unpack(endian, b4) ==
    IF endian = "<"
    THEN b4[1] + 256 * b4[2] + 65536 * b4[3] + 16777216 * b4[4]
    ELSE b4[4] + 256 * b4[3] + 65536 * b4[2] + 16777216 * b4[1]

Raised(exc) == [kind |-> exc, charset |-> << >>, entries |-> << >>]

\* read_table: struct.unpack needs 8 bytes for each of the n rows.
TableReadable(data, off, n) ==
    \A i \in 0..(n - 1) : Len(SliceAt(data, off + i * 8, 8)) = 8

ReadTable(data, endian, off, n) ==
    [i \in 1..n |-> <<Unpack(endian, Slice(data, off + (i - 1) * 8, off + (i - 1) * 8 + 4)),
                      Unpack(endian, Slice(data, off + (i - 1) * 8 + 4, off + (i - 1) * 8 + 8))>>]

\* str.split(sep, 1) when sep occurs: the parts before and after its first occurrence.
SplitOnce(str, sep) ==
    LET NotSep(c) == c # sep
        at == RunEnd(str, 1, NotSep)
    IN  <<SubSeq(str, 1, at - 1), Drop(str, at)>>

MsgstrParts(msgstr_raw) ==
    IF Contains(msgstr_raw, NUL) THEN Split(msgstr_raw, NUL) ELSE <<msgstr_raw>>

DecodeEntry(msgid_raw, msgstr_raw) ==
    LET has_ctxt == Contains(msgid_raw, CTX_SEP)
        ctxt     == IF has_ctxt THEN Some(SplitOnce(msgid_raw, CTX_SEP)[1]) ELSE None
        id1      == IF has_ctxt THEN SplitOnce(msgid_raw, CTX_SEP)[2] ELSE msgid_raw
        has_pl   == Contains(id1, NUL)
    IN  PoEntry(ctxt,
                IF has_pl THEN SplitOnce(id1, NUL)[1] ELSE id1,
                IF has_pl THEN Some(SplitOnce(id1, NUL)[2]) ELSE None,
                MsgstrParts(msgstr_raw))

ReadMo(data) ==
    IF Len(data) < HEADER_SIZE THEN Raised("ValueError")
    ELSE IF Slice(data, 0, 4) \notin {MAGIC_LE, MAGIC_BE} THEN Raised("ValueError")
    ELSE
    LET endian    == IF Slice(data, 0, 4) = MAGIC_LE THEN "<" ELSE ">"
        revision  == Unpack(endian, Slice(data, 4, 8))
        n         == Unpack(endian, Slice(data, 8, 12))
        off_orig  == Unpack(endian, Slice(data, 12, 16))
        off_trans == Unpack(endian, Slice(data, 16, 20))
    IN
    IF revision # 0 THEN Raised("ValueError")
    ELSE IF ~TableReadable(data, off_orig, n) \/ ~TableReadable(data, off_trans, n)
         THEN Raised("struct.error")
    ELSE
    LET orig_table  == ReadTable(data, endian, off_orig, n)
        trans_table == ReadTable(data, endian, off_trans, n)
        raw_o == [i \in 1..n |-> SliceAt(data, orig_table[i][2], orig_table[i][1])]
        raw_t == [i \in 1..n |-> SliceAt(data, trans_table[i][2], trans_table[i][1])]
        headers == {i \in 1..n : raw_o[i] = << >>}
        header_charset ==
            IF headers = {} THEN UTF8_LOWER
            ELSE DetectCharsetFromHeader(Utf8DecodeReplace(raw_t[Min(headers)]))
        Decode(b) == LET r == StrictDecode(b, header_charset)
                     IN  IF r.ok THEN r.val ELSE Utf8DecodeReplace(b)
    IN  [kind    |-> "ok",
         charset |-> header_charset,
         entries |-> [i \in 1..n |-> DecodeEntry(Decode(raw_o[i]), Decode(raw_t[i]))]]

(***************************************************************************)
(* MO scenario: write_mo writes a catalog under a charset, read_mo reads   *)
(* the file.                                                               *)
(***************************************************************************)
\* "Content-Type: text/plain; charset=ISO-8859-1\n"
LATIN_HEADER ==
    <<67, 111, 110, 116, 101, 110, 116, 45, 84, 121, 112, 101, 58, 32, 116, 101, 120,
      116, 47, 112, 108, 97, 105, 110, 59, 32, 99, 104, 97, 114, 115, 101, 116, 61,
      73, 83, 79, 45, 56, 56, 53, 57, 45, 49, 10>>

\* Strings of the catalogs: a, b, c, p, x, y and e-acute (U+00E9).
EntryPool ==
    { PoEntry(None, <<97>>, None, <<<<120>>>>),               \* a -> x
      PoEntry(None, <<97>>, None, <<<<121>>>>),               \* a -> y (the same key)
      PoEntry(None, <<98>>, None, <<<<233>>>>),               \* b -> e-acute
      PoEntry(None, <<233>>, None, <<<<98>>>>),               \* e-acute -> b
      PoEntry(None, <<98>>, None, << >>),                     \* b, no translation
      PoEntry(Some(<<99>>), <<97>>, None, <<<<120>>>>),       \* c | a -> x
      PoEntry(None, <<97>>, Some(<<112>>), <<<<120>>, <<121>>>>),   \* a / p -> x, y
      PoEntry(Some(<<99>>), << >>, None, <<<<120>>>>),        \* c | "" -> x
      PoEntry(None, << >>, None, <<SYNTH_HEADER>>),           \* a UTF-8 header
      PoEntry(None, << >>, None, <<LATIN_HEADER>>) }          \* an ISO-8859-1 header

Charsets ==
    { <<117, 116, 102, 45, 56>>,                \* utf-8
      <<85, 84, 70, 45, 56>>,                   \* UTF-8
      <<73, 83, 79, 45, 56, 56, 53, 57, 45, 49>>,   \* ISO-8859-1
      <<108, 97, 116, 105, 110, 45, 49>>,       \* latin-1
      <<97, 115, 99, 105, 105>>,                \* ascii
      <<117, 116, 102, 45, 49, 54>>,            \* utf-16
      <<120, 45, 110, 111, 110, 101>> }         \* x-none, a name Python does not know

RECURSIVE SeqsUpTo(_, _)
SeqsUpTo(alphabet, n) ==
    IF n = 0 THEN {<< >>}
    ELSE LET shorter == SeqsUpTo(alphabet, n - 1)
         IN  shorter \cup {Append(q, c) : q \in shorter, c \in alphabet}

NoResult == [kind |-> "none", charset |-> << >>, entries |-> << >>]

InitMo ==
    /\ pc = "write_mo"
    /\ keys = << >> /\ values = << >> /\ offsets_o = << >> /\ offsets_t = << >>
    /\ mo_file = << >>
    /\ mo_result = NoResult
    /\ EscIdle /\ CsIdle /\ PoIdle /\ DiffIdle
    /\ charset \in Charsets
    /\ catalog \in SeqsUpTo(EntryPool, MaxEntries)

\* write_mo up to the sorted keys and their values.
WriteMoCollect ==
    /\ pc = "write_mo"
    /\ keys' = SortedKeys(catalog, charset)
    /\ values' = ValuesOf(catalog, charset, keys')
    /\ pc' = "layout"
    /\ UNCHANGED <<catalog, charset, offsets_o, offsets_t, mo_file, mo_result,
                   escVars, csVars, poVars, diffVars>>

\* The two loops that lay the strings out in the pool.
WriteMoLayout ==
    /\ pc = "layout"
    /\ offsets_o' = SubSeq(Offsets(keys \o values, StringPoolOff(Len(keys))), 1, Len(keys))
    /\ offsets_t' = SubSeq(Offsets(keys \o values, StringPoolOff(Len(keys))),
                           Len(keys) + 1, 2 * Len(keys))
    /\ pc' = "pack"
    /\ UNCHANGED <<catalog, charset, keys, values, mo_file, mo_result,
                   escVars, csVars, poVars, diffVars>>

\* The file is packed and written.
WriteMoPack ==
    /\ pc = "pack"
    /\ mo_file' = FileBytes(keys, values, offsets_o, offsets_t)
    /\ pc' = "read_mo"
    /\ UNCHANGED <<catalog, charset, keys, values, offsets_o, offsets_t, mo_result,
                   escVars, csVars, poVars, diffVars>>

DoReadMo ==
    /\ pc = "read_mo"
    /\ mo_result' = ReadMo(mo_file)
    /\ pc' = "read_done"
    /\ UNCHANGED <<catalog, charset, keys, values, offsets_o, offsets_t, mo_file,
                   escVars, csVars, poVars, diffVars>>

NextMo == WriteMoCollect \/ WriteMoLayout \/ WriteMoPack \/ DoReadMo

SpecMo == InitMo /\ [][NextMo]_vars

FileWritten == pc \in {"read_mo", "read_done"}

\* What the written file says: its entry count, its two tables, the bytes a row names.
FileCount == Unpack("<", Slice(mo_file, 8, 12))
FileTable(at) == ReadTable(mo_file, "<", Unpack("<", Slice(mo_file, at, at + 4)), FileCount)
OrigRows  == FileTable(12)
TransRows == FileTable(16)
RowString(row) == SliceAt(mo_file, row[2], row[1])
Range(f) == {f[i] : i \in DOMAIN f}
Occurs(sub, str) ==
    \E i \in 1..(Len(str) - Len(sub) + 1) : SubSeq(str, i, i + Len(sub) - 1) = sub
HasEmptyMsgid(es) == \E i \in 1..Len(es) : es[i].msgid = << >>
\* "charset=UTF-8"
DECLARES_UTF8 == <<99, 104, 97, 114, 115, 101, 116, 61, 85, 84, 70, 45, 56>>
\* The charsets under which the empty string encodes to no bytes and ASCII to itself.
AsciiCompatible(cs) == Codec(cs) # "utf-16"

\* C2: for every catalog and valid charset, read_mo of what write_mo wrote returns the
\* charset passed to write_mo and, as a set, the entries of the catalog with their
\* msgstr lists unchanged.
MoRoundTrip ==
    (pc = "read_done" /\ Codec(charset) # "unknown") =>
        /\ mo_result.kind = "ok"
        /\ mo_result.charset = charset
        /\ Range(mo_result.entries) = Range(catalog)

\* A header appears in the file: an empty original key whose translation declares
\* charset=UTF-8, read back as an entry with empty msgid.
HeaderSynthesized ==
    /\ \E i \in 1..FileCount :
          /\ RowString(OrigRows[i]) = << >>
          /\ Occurs(DECLARES_UTF8, RowString(TransRows[i]))
    /\ \E i \in 1..Len(mo_result.entries) :
          /\ mo_result.entries[i].msgid = << >>
          /\ mo_result.entries[i].msgctxt = None
          /\ Len(mo_result.entries[i].msgstr) > 0
          /\ Occurs(DECLARES_UTF8, mo_result.entries[i].msgstr[1])

\* The file has exactly the keys of the catalog's own entries.
NoHeaderAdded ==
    {RowString(OrigRows[i]) : i \in 1..FileCount}
        = {Enc(KeyOf(catalog[j]), charset) : j \in 1..Len(catalog)}

\* C4 as stated: for every catalog without an empty-msgid entry and every charset, the
\* output has an empty original key whose translation declares charset=UTF-8; a catalog
\* with an empty-msgid entry gets no header.
HeaderSynthesisAnyCharset ==
    pc = "read_done" =>
        /\ ~HasEmptyMsgid(catalog) => HeaderSynthesized
        /\ HasEmptyMsgid(catalog) => NoHeaderAdded

\* C4, amended: the same, for the charsets that encode the empty string to no bytes and
\* ASCII text to itself (utf-8, latin-1, ascii, and an unknown name, which falls back to
\* UTF-8); under them read_mo also resolves the charset UTF-8.  A catalog with an
\* empty-msgid entry gets no header under any charset.
HeaderSynthesis ==
    pc = "read_done" =>
        /\ (~HasEmptyMsgid(catalog) /\ AsciiCompatible(charset)) =>
              (HeaderSynthesized /\ mo_result.charset = <<85, 84, 70, 45, 56>>)
        /\ HasEmptyMsgid(catalog) => NoHeaderAdded

HeaderSynthesisWitness ==
    /\ pc = "read_done"
    /\ Len(catalog) = 2
    /\ ~HasEmptyMsgid(catalog)
    /\ Codec(charset) = "latin-1"
    /\ FileCount = 3
    /\ HeaderSynthesized

\* C5: the keys of the original-string table are in ascending byte order, none twice,
\* and row i of the translated-string table holds the value of the last entry whose key
\* is the i-th key.
SortInvariant ==
    FileWritten =>
        /\ \A i \in 1..(FileCount - 1) :
              BytesLess(RowString(OrigRows[i]), RowString(OrigRows[i + 1]))
        /\ \A i, j \in 1..FileCount :
              RowString(OrigRows[i]) = RowString(OrigRows[j]) => i = j
        /\ LET all == WithHeader(catalog)
           IN  \A i \in 1..FileCount :
                 \E j \in 1..Len(all) :
                    /\ Enc(KeyOf(all[j]), charset) = RowString(OrigRows[i])
                    /\ Enc(ValOf(all[j]), charset) = RowString(TransRows[i])
                    /\ \A k \in (j + 1)..Len(all) :
                          Enc(KeyOf(all[k]), charset) # RowString(OrigRows[i])

\* Two entries with one key, given after an entry with a greater key.
SortInvariantWitness ==
    /\ pc = "read_done"
    /\ Len(catalog) = 2
    /\ catalog[1] # catalog[2]
    /\ KeyOf(catalog[1]) = KeyOf(catalog[2])
    /\ FileCount = 2
    /\ RowString(TransRows[2]) = Enc(ValOf(catalog[2]), charset)

\* C6: every row of either table has an offset that is a multiple of 4, the bytes of
\* the file at the row are the string followed by a NUL byte, and no two strings overlap.
AlignmentInvariant ==
    FileWritten =>
        LET rows == OrigRows \o TransRows
            strs == keys \o values
        IN  /\ Len(rows) = Len(strs)
            /\ \A i \in 1..Len(rows) :
                  /\ rows[i][2] % 4 = 0
                  /\ rows[i][1] = Len(strs[i])
                  /\ SliceAt(mo_file, rows[i][2], rows[i][1] + 1) = strs[i] \o <<NUL>>
            /\ \A i, j \in 1..Len(rows) :
                  i # j => \/ rows[i][2] + rows[i][1] + 1 <= rows[j][2]
                           \/ rows[j][2] + rows[j][1] + 1 <= rows[i][2]

\* A string whose length and NUL do not fill a multiple of 4: padding follows it.
AlignmentInvariantWitness ==
    /\ pc = "read_done"
    /\ FileCount >= 2
    /\ \E i \in 1..(Len(OrigRows) - 1) :
          /\ OrigRows[i][1] > 0
          /\ OrigRows[i][2] + OrigRows[i][1] + 1 < OrigRows[i + 1][2]

(***************************************************************************)
(* read_mo on hand-made buffers: a 28-byte header in either byte order,    *)
(* then nothing, tables with a string pool, or tables that point far       *)
(* outside; the whole cut to one of a few lengths.                         *)
(***************************************************************************)
Pack(endian, x) == IF endian = "<" THEN PackLE(x) ELSE PackBE(x)

BAD_MAGIC == <<222, 18, 4, 150>>

\* An offset past the end of every buffer; read in the other byte order it still fits
\* a 32-bit signed integer.
FAR == 120

\* n original rows, n translated rows, then the strings "a" and "x" n times each; the
\* first original string has length 0.
PooledTail(endian, n) ==
    LET pool_off == HEADER_SIZE + 16 * n
        O(i) == Pack(endian, IF i = 1 THEN 0 ELSE 1) \o Pack(endian, pool_off + 2 * (i - 1))
        T(i) == Pack(endian, 1) \o Pack(endian, pool_off + 2 * n + 2 * (i - 1))
        A(i) == <<97, NUL>>
        X(i) == <<120, NUL>>
    IN  FlatMap(O, 1, n) \o FlatMap(T, 1, n) \o FlatMap(A, 1, n) \o FlatMap(X, 1, n)

\* 2n rows whose strings lie outside the buffer.
WildTail(endian, n) ==
    LET R(i) == Pack(endian, 5) \o Pack(endian, FAR)
    IN  FlatMap(R, 1, 2 * n)

Buffers ==
    { SubSeq(full, 1, Min({cut, Len(full)})) :
        full \in { magic \o Pack(endian, revision) \o Pack(endian, n)
                         \o Pack(endian, off_orig) \o Pack(endian, off_trans)
                         \o Pack(endian, 0) \o Pack(endian, 0) \o tail :
                   magic \in {MAGIC_LE, MAGIC_BE, BAD_MAGIC},
                   endian \in {"<", ">"},
                   revision \in {0, 1},
                   n \in 0..MaxCount,
                   off_orig \in {HEADER_SIZE, FAR},
                   off_trans \in {HEADER_SIZE + 8 * k : k \in 0..MaxCount} \cup {FAR},
                   tail \in UNION { {<< >>, PooledTail(e, k), WildTail(e, k)} :
                                      e \in {"<", ">"}, k \in 0..MaxCount } },
        cut \in {HEADER_SIZE - 1, HEADER_SIZE, HEADER_SIZE + 12, FAR} }

InitReadMo ==
    /\ pc = "read_mo"
    /\ mo_file \in Buffers
    /\ catalog = << >> /\ charset = << >>
    /\ keys = << >> /\ values = << >> /\ offsets_o = << >> /\ offsets_t = << >>
    /\ mo_result = NoResult
    /\ EscIdle /\ CsIdle /\ PoIdle /\ DiffIdle

NextReadMo == DoReadMo

SpecReadMo == InitReadMo /\ [][NextReadMo]_vars

FormatErrorExpected(data) ==
    \/ Len(data) < 28
    \/ Slice(data, 0, 4) \notin {MAGIC_LE, MAGIC_BE}
    \/ Slice(data, 4, 8) # <<0, 0, 0, 0>>

\* C7: read_mo returns a complete result or fails with the format error, fails exactly
\* on a buffer shorter than 28 bytes, a magic that matches in neither byte order or a
\* revision other than 0, and returns no entries when it fails.
DecodeOutcomes ==
    pc = "read_done" =>
        /\ mo_result.kind \in {"ok", "ValueError"}
        /\ mo_result.kind = "ValueError" <=> FormatErrorExpected(mo_file)
        /\ mo_result.kind # "ok" => mo_result.entries = << >>

(***************************************************************************)
(* PO scenario: read_po reads a file line by line, write_po writes the     *)
(* catalog it returned, and read_po reads that file in turn.               *)
(***************************************************************************)
PoLines ==
    { << >>,                                                        \* (empty)
      <<32>>,                                                       \* (one space)
      <<35, 32, 99>>,                                               \* # c
      <<109, 115, 103, 99, 116, 120, 116, 32, 34, 99, 34>>,         \* msgctxt "c"
      <<109, 115, 103, 105, 100, 32, 34, 97, 34>>,                  \* msgid "a"
      <<109, 115, 103, 105, 100, 95, 112, 108, 117, 114, 97, 108, 32, 34, 112, 34>>,
                                                                    \* msgid_plural "p"
      <<109, 115, 103, 115, 116, 114, 32, 34, 120, 92, 110, 34>>,   \* msgstr "x\n"
      <<109, 115, 103, 115, 116, 114, 91, 49, 93, 32, 34, 121, 34>>,\* msgstr[1] "y"
      <<34, 122, 92, 116, 34>> }                                    \* "z\t"

Reader == [cur |-> cur, active_key |-> active_key, entries |-> entries,
           header |-> nonlocal_header]

ReaderBecomes(st) ==
    /\ cur' = st.cur
    /\ active_key' = st.active_key
    /\ entries' = st.entries
    /\ nonlocal_header' = st.header

InitPo ==
    /\ pc = "read"
    /\ lines = << >> /\ pos = 0
    /\ cur = None /\ active_key = None /\ entries = << >>
    /\ nonlocal_header = UTF8_LOWER
    /\ written = << >> /\ po_text = << >>
    /\ EscIdle /\ CsIdle /\ MoIdle /\ DiffIdle

\* One iteration of the loop over a line of the file read first.
ReadLine ==
    /\ pc = "read"
    /\ Len(lines) < MaxLines
    /\ \E raw \in PoLines :
           /\ lines' = Append(lines, raw)
           /\ ReaderBecomes(StepLine(Reader, raw))
    /\ pos' = pos + 1
    /\ UNCHANGED <<pc, written, po_text, escVars, csVars, moVars, diffVars>>

\* The last iteration, over the "" that the loop appends to the lines.
EndOfInput ==
    /\ pc = "read"
    /\ ReaderBecomes(StepLine(Reader, << >>))
    /\ pos' = pos + 1
    /\ pc' = "write"
    /\ UNCHANGED <<lines, written, po_text, escVars, csVars, moVars, diffVars>>

\* write_po of the catalog read, and the start of read_po on the file written.
WriteAndReopen ==
    /\ pc = "write"
    /\ written' = entries
    /\ po_text' = WritePo(entries)
    /\ lines' = SplitLines(WritePo(entries))
    /\ pos' = 0
    /\ ReaderBecomes(ReaderStart)
    /\ pc' = "reread"
    /\ UNCHANGED <<escVars, csVars, moVars, diffVars>>

RereadLine ==
    /\ pc = "reread"
    /\ pos < Len(lines)
    /\ ReaderBecomes(StepLine(Reader, lines[pos + 1]))
    /\ pos' = pos + 1
    /\ UNCHANGED <<pc, lines, written, po_text, escVars, csVars, moVars, diffVars>>

RereadEnd ==
    /\ pc = "reread"
    /\ pos = Len(lines)
    /\ ReaderBecomes(StepLine(Reader, << >>))
    /\ pos' = pos + 1
    /\ pc' = "done"
    /\ UNCHANGED <<lines, written, po_text, escVars, csVars, moVars, diffVars>>

NextPo == ReadLine \/ EndOfInput \/ WriteAndReopen \/ RereadLine \/ RereadEnd

SpecPo == InitPo /\ [][NextPo]_vars

\* C1: reading back what write_po wrote gives the catalog that was written,
\* field for field and in the same order.
PoRoundTrip == pc = "done" => entries = written

IsBlankLine(raw) == Strip(raw) = << >>

IsDirectiveLine(raw) ==
    LET line == Strip(raw)
    IN  \/ StartsWith(line, KW_MSGCTXT)
        \/ StartsWith(line, KW_MSGID)
        \/ StartsWith(line, KW_MSGSTR)

\* The blank-line-delimited blocks of a file that hold a directive line, as
\* the positions of their first lines, and each block's lines.
BlockEnd(ls, i) == Min({j \in i..(Len(ls) + 1) : j > Len(ls) \/ IsBlankLine(ls[j])})

DirectiveBlocks(ls) ==
    {i \in 1..Len(ls) :
        /\ ~IsBlankLine(ls[i])
        /\ i = 1 \/ IsBlankLine(ls[i - 1])
        /\ \E j \in i..(BlockEnd(ls, i) - 1) : IsDirectiveLine(ls[j])}

NthBlock(ls, k) ==
    LET starts == DirectiveBlocks(ls)
        first  == CHOOSE x \in starts : Cardinality({y \in starts : y < x}) = k - 1
    IN  SubSeq(ls, first, BlockEnd(ls, first) - 1)

\* The line an iteration of the loop consumes: a line of the file, or the ""
\* appended to them.
Consumed == IF pos' <= Len(lines') THEN lines'[pos'] ELSE << >>

FlushStep ==
    (pc \in {"read", "reread"} /\ pos' = pos + 1) =>
        /\ IsBlankLine(Consumed) /\ cur # None =>
               entries' = Append(entries, cur[1])
        /\ IsBlankLine(Consumed) /\ cur = None => entries' = entries
        /\ IsBlankLine(Consumed) => cur' = None /\ active_key' = None
        /\ ~IsBlankLine(Consumed) => entries' = entries
        /\ IsDirectiveLine(Consumed) => cur' # None
        /\ (StartsWith(Strip(Consumed), <<DQUOTE>>) /\ active_key = None) =>
               cur' = cur /\ entries' = entries

FlushedAtEnd ==
    (pc \in {"write", "done"}) =>
        /\ cur = None /\ active_key = None
        /\ Len(entries) = Cardinality(DirectiveBlocks(lines))
        /\ \A k \in 1..Len(entries) : <<entries[k]>> = ReadPo(NthBlock(lines, k)).entries

\* C10: an entry under construction is appended exactly once, at the first
\* blank line after its directives or at the end of input; a blank line with no
\* entry under construction appends nothing; after a flush no field is active,
\* so a continuation line before the next directive changes nothing; and at
\* the end the output holds one entry per block with a directive, in order.
PoFlushing == [][FlushStep]_vars /\ []FlushedAtEnd

\* C10 witness: a file with two directive blocks, a continuation line right
\* after a blank line, and no blank line at its end has been read.
PoFlushingWitness ==
    /\ pc = "write"
    /\ Len(entries) = 2
    /\ ~IsBlankLine(lines[Len(lines)])
    /\ \E i \in 1..(Len(lines) - 1) :
           IsBlankLine(lines[i]) /\ StartsWith(lines[i + 1], <<DQUOTE>>)

(***************************************************************************)
(* Escaping: a string is escaped and quoted, then parsed back.             *)
(***************************************************************************)
\* backslash, quote, tab, CR, LF, and the letters t, r, n, a
EscAlphabet == {BACKSLASH, DQUOTE, TAB, CR, LF, 116, 114, 110, 97}

InitEscape ==
    /\ pc = "escape"
    /\ s \in SeqsUpTo(EscAlphabet, MaxLen)
    /\ escaped = << >> /\ parsed = << >>
    /\ CsIdle /\ PoIdle /\ MoIdle /\ DiffIdle

DoEscape ==
    /\ pc = "escape"
    /\ escaped' = PoEscape(s)
    /\ pc' = "parse"
    /\ UNCHANGED <<s, parsed, csVars, poVars, moVars, diffVars>>

DoParse ==
    /\ pc = "parse"
    /\ parsed' = ParsePoStringLiteral(Quoted(escaped))
    /\ pc' = "parsed"
    /\ UNCHANGED <<s, escaped, csVars, poVars, moVars, diffVars>>

NextEscape == DoEscape \/ DoParse

SpecEscape == InitEscape /\ [][NextEscape]_vars

\* C8: parsing the quoted escape of a string gives the string back.
EscapeRoundTrip == pc = "parsed" => parsed = s

\* C8 witness: a string with a backslash followed by the letter n, and a real
\* newline, has been escaped and parsed back.
EscapeRoundTripWitness ==
    /\ pc = "parsed"
    /\ \E i \in 1..(Len(s) - 1) : s[i] = BACKSLASH /\ s[i + 1] = 110
    /\ Contains(s, LF)
    /\ Len(escaped) > Len(s)

(***************************************************************************)
(* missing_translations: the report of the target entries that are still   *)
(* untranslated.                                                           *)
(***************************************************************************)
EntryKey(entry) == <<entry.msgctxt, entry.msgid, entry.msgid_plural>>

\* [p or "" for p in parts]
NormalizeMsgstr(parts) == [i \in 1..Len(parts) |-> IF parts[i] = << >> THEN << >> ELSE parts[i]]

Max(a, b) == IF a >= b THEN a ELSE b

\* msgstr += [""] * (max_len - len(msgstr))
Padded(msgstr, max_len) == msgstr \o [k \in 1..(max_len - Len(msgstr)) |-> << >>]

\* The mutant: the two lists are compared as far as the shorter one goes.
IsMissingUnpadded(en_entry, pt_entry) ==
    IF pt_entry.msgid = << >> THEN FALSE
    ELSE LET en_msgstr == NormalizeMsgstr(en_entry.msgstr)
             pt_msgstr == NormalizeMsgstr(pt_entry.msgstr)
         IN  IF pt_msgstr = << >> \/ \A i \in 1..Len(pt_msgstr) : Strip(pt_msgstr[i]) = << >>
             THEN TRUE
             ELSE \A i \in 1..Len(pt_msgstr) : i <= Len(en_msgstr) => pt_msgstr[i] = en_msgstr[i]

IsMissingTranslation(en_entry, pt_entry) ==
    IF pt_entry.msgid = << >> THEN FALSE
    ELSE LET en_msgstr == NormalizeMsgstr(en_entry.msgstr)
             pt_msgstr == NormalizeMsgstr(pt_entry.msgstr)
         IN  IF pt_msgstr = << >> \/ \A i \in 1..Len(pt_msgstr) : Strip(pt_msgstr[i]) = << >>
             THEN TRUE
             ELSE LET max_len == Max(Len(en_msgstr), Len(pt_msgstr))
                      en_pad  == Padded(en_msgstr, max_len)
                      pt_pad  == Padded(pt_msgstr, max_len)
                  IN  \A i \in 1..max_len : pt_pad[i] = en_pad[i]

FormatMissing(en_entry, pt_entry) ==
    LET en_msgstr == NormalizeMsgstr(en_entry.msgstr)
        pt_msgstr == NormalizeMsgstr(pt_entry.msgstr)
        head == <<<<109, 115, 103, 105, 100, 58, 32>> \o en_entry.msgid>>
                \o (IF en_entry.msgctxt # None
                    THEN <<<<109, 115, 103, 99, 116, 120, 116, 58, 32>> \o en_entry.msgctxt[1]>> ELSE << >>)
                \o (IF en_entry.msgid_plural # None
                    THEN <<<<109, 115, 103, 105, 100, 95, 112, 108, 117, 114, 97, 108, 58, 32>> \o en_entry.msgid_plural[1]>> ELSE << >>)
        Pair(i) == <<<<101, 110, 46, 109, 115, 103, 115, 116, 114, 91>> \o Digits(i - 1) \o <<93, 58, 32>> \o en_msgstr[i],
                     <<112, 116, 46, 109, 115, 103, 115, 116, 114, 91>> \o Digits(i - 1) \o <<93, 58, 32>> \o pt_msgstr[i]>>
        body == IF en_entry.msgid_plural # None
                THEN FlatMap(Pair, 1, Min({Len(en_msgstr), Len(pt_msgstr)}))
                ELSE <<<<101, 110, 46, 109, 115, 103, 115, 116, 114, 58, 32>> \o (IF en_msgstr # << >> THEN en_msgstr[1] ELSE << >>),
                       <<112, 116, 46, 109, 115, 103, 115, 116, 114, 58, 32>> \o (IF pt_msgstr # << >> THEN pt_msgstr[1] ELSE << >>)>>
    IN  Join(head \o body, LF)

\* en_by_key.get(key): the last reference entry with the key and a non-empty msgid.
EnByKey(ens, key) ==
    LET at == {j \in 1..Len(ens) : ens[j].msgid # << >> /\ EntryKey(ens[j]) = key}
    IN  IF at = {} THEN None
        ELSE Some(ens[CHOOSE j \in at : \A k \in at : k <= j])

\* "\n\n".join(missing_blocks) + ("\n" if missing_blocks else "")
ReportText(blocks) ==
    LET F(i) == IF i < Len(blocks) THEN blocks[i] \o <<LF, LF>> ELSE blocks[i]
    IN  FlatMap(F, 1, Len(blocks)) \o (IF blocks # << >> THEN <<LF>> ELSE << >>)

\* The strings of the catalogs: a, b, c, h, p, x, y and one space.
RefPool ==
    { PoEntry(None, <<97>>, None, <<<<120>>>>),                     \* a -> x
      PoEntry(None, <<97>>, None, <<<<121>>>>),                     \* a -> y
      PoEntry(None, <<97>>, Some(<<112>>), <<<<120>>, <<121>>>>),   \* a / p -> x, y
      PoEntry(Some(<<99>>), <<97>>, None, <<<<120>>>>),             \* c | a -> x
      PoEntry(None, << >>, None, <<<<104>>>>) }                     \* the header

TgtPool ==
    { PoEntry(None, <<97>>, None, <<<<120>>>>),                     \* a -> x
      PoEntry(None, <<97>>, None, <<<<32>>>>),                      \* a -> one space
      PoEntry(None, <<97>>, None, << >>),                           \* a, no msgstr
      PoEntry(None, <<97>>, Some(<<112>>), <<<<120>>>>),            \* a / p -> x
      PoEntry(None, <<98>>, None, <<<<120>>>>),                     \* b -> x
      PoEntry(None, << >>, None, <<<<104>>>>) }                     \* the header

InitDiff ==
    /\ pc = "diff"
    /\ en_entries \in SeqsUpTo(RefPool, MaxRef)
    /\ pt_entries \in SeqsUpTo(TgtPool, MaxTgt)
    /\ idx = 0
    /\ missing_count = 0
    /\ missing_blocks = << >>
    /\ out_text = << >>
    /\ printed = << >>
    /\ EscIdle /\ CsIdle /\ PoIdle /\ MoIdle

\* One turn of the loop over pt_entries.
DiffEntry ==
    /\ pc = "diff"
    /\ idx < Len(pt_entries)
    /\ idx' = idx + 1
    /\ LET pt_entry == pt_entries[idx + 1]
           en_entry == EnByKey(en_entries, EntryKey(pt_entry))
       IN  IF pt_entry.msgid # << >> /\ en_entry # None
              /\ IsMissingTranslation(en_entry[1], pt_entry)
           THEN /\ missing_count' = missing_count + 1
                /\ missing_blocks' = Append(missing_blocks, FormatMissing(en_entry[1], pt_entry))
           ELSE UNCHANGED <<missing_count, missing_blocks>>
    /\ UNCHANGED <<pc, en_entries, pt_entries, out_text, printed,
                   escVars, csVars, poVars, moVars>>

\* After the loop the report is written and the count printed.
DiffReport ==
    /\ pc = "diff"
    /\ idx = Len(pt_entries)
    /\ out_text' = ReportText(missing_blocks)
    /\ printed' = <<missing_count>>
    /\ pc' = "diff_done"
    /\ UNCHANGED <<en_entries, pt_entries, idx, missing_count, missing_blocks,
                   escVars, csVars, poVars, moVars>>

NextDiff == DiffEntry \/ DiffReport

SpecDiff == InitDiff /\ [][NextDiff]_vars

AllBlank(strs) == \A i \in 1..Len(strs) : \A j \in 1..Len(strs[i]) : IsSpace(strs[i][j])
StrAt(strs, i) == IF i <= Len(strs) THEN strs[i] ELSE << >>
SameAfterPadding(a, b) == \A i \in 1..Max(Len(a), Len(b)) : StrAt(a, i) = StrAt(b, i)
HasRef(i) == \E j \in 1..Len(en_entries) : EntryKey(en_entries[j]) = EntryKey(pt_entries[i])
LastRef(i) ==
    en_entries[CHOOSE j \in 1..Len(en_entries) :
                  /\ EntryKey(en_entries[j]) = EntryKey(pt_entries[i])
                  /\ \A k \in (j + 1)..Len(en_entries) :
                        EntryKey(en_entries[k]) # EntryKey(pt_entries[i])]
\* The target entries handled so far that are to be reported.
ToReport ==
    {i \in 1..idx :
        /\ pt_entries[i].msgid # << >>
        /\ HasRef(i)
        /\ \/ AllBlank(pt_entries[i].msgstr)
           \/ SameAfterPadding(pt_entries[i].msgstr, LastRef(i).msgstr)}
NthToReport(k) == CHOOSE i \in ToReport : Cardinality({j \in ToReport : j <= i}) = k

\* C9: a target entry with non-empty msgid whose key is in the reference is counted and
\* reported exactly when all its msgstr strings are blank (or it has none) or, padded to
\* equal length, its msgstr list equals the reference's; entries without a reference and
\* headers are never reported; the printed count is the number of blocks.
MissingClassification ==
    /\ missing_count = Cardinality(ToReport)
    /\ Len(missing_blocks) = Cardinality(ToReport)
    /\ \A k \in 1..Len(missing_blocks) :
          missing_blocks[k] = FormatMissing(LastRef(NthToReport(k)), pt_entries[NthToReport(k)])
    /\ pc = "diff_done" => printed = <<Len(missing_blocks)>>

\* A finished report with an entry reported and a plural entry, one form shorter than
\* the reference's, left out.
MissingClassificationWitness ==
    /\ pc = "diff_done"
    /\ printed = <<1>>
    /\ \E i \in 1..Len(pt_entries) :
          /\ i \notin ToReport
          /\ pt_entries[i].msgid # << >>
          /\ HasRef(i)
          /\ Len(pt_entries[i].msgstr) < Len(LastRef(i).msgstr)
          /\ pt_entries[i].msgstr = SubSeq(LastRef(i).msgstr, 1, Len(pt_entries[i].msgstr))

====
